---- MODULE Spec2Model ----
(***************************************************************************)
(* Identity resolution of PersonTracker (src/datasciencetask.py): the      *)
(* FAISS flat L2 index, the embedding store and the identity counter, as   *)
(* driven by process_video / process_frame.                                *)
(*                                                                         *)
(* Embeddings are vectors of `dimension` coordinates.  Coordinates are     *)
(* integer multiples of a quantum q with q*q = 0.35, so squared L2         *)
(* distances are integers counted in units of 0.35 and the default         *)
(* threshold 0.7 of match_reid_embedding is 2 units.                       *)
(***************************************************************************)
EXTENDS Integers, Sequences, FiniteSets, TLC

\* ---- bounds of the model ----
\* self.dimension is 512 in the source; the model scales it down.
dimension == 2
MaxCoord == 2
WideCoord == 3
MaxBoxes == 2
MaxFrames == 2
MaxIds == 3
MaxThreshold == 4
MaxTrackId == 2

\* ---- program constants ----
\* threshold=0.7 (default argument), in units of 0.35
threshold == 2
\* Python's None, as returned by match_reid_embedding
None == -1

VARIABLES
  tracker,      \* the PersonTracker of the session: index, person_embeddings, next_id
  pc,           \* position of process_video: "idle", "loop", "raised", "done"
  todo,         \* detections of the current frame not yet iterated by the for loop
  frame_count,  \* process_video's frame counter
  last,         \* the last iteration of the loop body: embedding, found, matched_id
  minted,       \* history: minted[i] is the identity labelled by the iteration that created slot i-1
  tracker2,     \* a second session fed the same detections (two-run comparisons)
  out,          \* the current frame of the first session: labels drawn, track ids read, boxes, has ids
  out2,         \* the current frame of the second session
  thr,          \* threshold of the first session
  thr2,         \* threshold of the second session
  same_ids,     \* history: both sessions received track ids on exactly the same frames
  race,         \* two calls of the match-or-mint step in flight: position, embedding, match result, lock
  extraction_failed  \* history: get_reid_embedding caught an exception in the last iteration

vars == <<tracker, pc, todo, frame_count, last, minted, tracker2, out, out2, thr, thr2, same_ids,
         race, extraction_failed>>

\* ---- embeddings ----
\* Vectors get_reid_embedding can return: always `dimension` long.
Embeddings == [1..dimension -> 0..MaxCoord]

\* The same over a wider range of coordinates.
EmbeddingsWide == [1..dimension -> 0..WideCoord]

\* np.zeros(self.dimension): the vector returned when extraction fails.
zeros == [i \in 1..dimension |-> 0]

\* Vectors of any length from 1 to dimension+1, for a resolve called directly.
Vectors == UNION {[1..n -> 0..MaxCoord] : n \in 1..(dimension + 1)}

\* ---- faiss.IndexFlatL2 ----
RECURSIVE fvec_L2sqr_upto(_, _, _)
fvec_L2sqr_upto(x, y, i) ==
  IF i = 0 THEN 0
  ELSE (x[i] - y[i]) * (x[i] - y[i]) + fvec_L2sqr_upto(x, y, i - 1)

\* squared Euclidean distance, the metric of IndexFlatL2
fvec_L2sqr(x, y) == fvec_L2sqr_upto(x, y, dimension)

\* The sequential scan of index.search(x, 1): a stored vector replaces the
\* current best only when it is strictly nearer.
RECURSIVE scan(_, _, _, _)
scan(xb, x, j, best) ==
  IF j > Len(xb) THEN best
  ELSE LET dis == fvec_L2sqr(xb[j], x)
       IN scan(xb, x, j + 1,
               IF best.idx = None \/ dis < best.dis
                 THEN [dis |-> dis, idx |-> j - 1]
                 ELSE best)

\* mutant: a stored vector replaces the best when nearer or equally near
RECURSIVE scan_last(_, _, _, _)
scan_last(xb, x, j, best) ==
  IF j > Len(xb) THEN best
  ELSE LET dis == fvec_L2sqr(xb[j], x)
       IN scan_last(xb, x, j + 1,
                    IF best.idx = None \/ dis <= best.dis
                      THEN [dis |-> dis, idx |-> j - 1]
                      ELSE best)

search_last(xb, x) == scan_last(xb, x, 1, [dis |-> 0, idx |-> None])

\* distances[0][0], indices[0][0] of self.index.search(embedding.reshape(1, -1), 1)
search(xb, x) == scan(xb, x, 1, [dis |-> 0, idx |-> None])

\* ---- PersonTracker ----
\* __init__: empty index, empty defaultdict, next_id = 0
PersonTracker == [index |-> << >>, person_embeddings |-> << >>, next_id |-> 0]

\* self.person_embeddings[key].append(v) on a defaultdict(list)
dict_append(d, key, v) ==
  [k \in (DOMAIN d) \cup {key} |->
     IF k = key
       THEN (IF key \in DOMAIN d THEN Append(d[key], v) ELSE <<v>>)
       ELSE d[k]]

\* mutant: the comparison with the threshold is exclusive
match_reid_embedding_excl(self, embedding, t) ==
  IF Len(self.index) = 0 THEN [raised |-> FALSE, value |-> None]
  ELSE IF Len(embedding) # dimension THEN [raised |-> TRUE, value |-> None]
  ELSE LET r == search(self.index, embedding)
       IN IF r.dis >= t THEN [raised |-> FALSE, value |-> None]
          ELSE [raised |-> FALSE, value |-> r.idx]

\* mutant: the comparison is inverted, as for a similarity score
match_reid_embedding_inverted(self, embedding, t) ==
  IF Len(self.index) = 0 THEN [raised |-> FALSE, value |-> None]
  ELSE IF Len(embedding) # dimension THEN [raised |-> TRUE, value |-> None]
  ELSE LET r == search(self.index, embedding)
       IN IF r.dis < t THEN [raised |-> FALSE, value |-> None]
          ELSE [raised |-> FALSE, value |-> r.idx]

\* mutant: the length is not checked; the query is cut or zero-padded to
\* `dimension` coordinates
match_reid_embedding_unchecked(self, embedding, t) ==
  IF Len(self.index) = 0 THEN [raised |-> FALSE, value |-> None]
  ELSE LET x == [i \in 1..dimension |-> IF i <= Len(embedding) THEN embedding[i] ELSE 0]
           r == search(self.index, x)
       IN IF r.dis > t THEN [raised |-> FALSE, value |-> None]
          ELSE [raised |-> FALSE, value |-> r.idx]

\* match_reid_embedding(self, embedding, threshold): the slot of the nearest
\* stored vector, or None; search raises when the vector is not `dimension` long.
match_reid_embedding(self, embedding, t) ==
  IF Len(self.index) = 0 THEN [raised |-> FALSE, value |-> None]
  ELSE IF Len(embedding) # dimension THEN [raised |-> TRUE, value |-> None]
  ELSE LET r == search(self.index, embedding)
       IN IF r.dis > t THEN [raised |-> FALSE, value |-> None]
          ELSE [raised |-> FALSE, value |-> r.idx]

\* mutant: the new identity is read after the increment
resolve_post_incr(self, embedding, t) ==
  LET m == match_reid_embedding(self, embedding, t)
  IN IF m.raised
       THEN [self |-> self, found |-> None, matched_id |-> None, raised |-> TRUE]
     ELSE IF m.value = None
       THEN LET s1 == [self EXCEPT !.next_id = @ + 1]
                id == s1.next_id
            IN IF Len(embedding) # dimension
                 THEN [self |-> s1, found |-> None, matched_id |-> None, raised |-> TRUE]
                 ELSE [self |-> [s1 EXCEPT !.index = Append(@, embedding),
                                           !.person_embeddings = dict_append(@, id, embedding)],
                       found |-> None, matched_id |-> id, raised |-> FALSE]
     ELSE [self |-> self, found |-> m.value, matched_id |-> m.value, raised |-> FALSE]

\* mutant: next_id is not incremented
resolve_no_incr(self, embedding, t) ==
  LET m == match_reid_embedding(self, embedding, t)
  IN IF m.raised
       THEN [self |-> self, found |-> None, matched_id |-> None, raised |-> TRUE]
     ELSE IF m.value = None
       THEN LET s1 == self
                id == self.next_id
            IN IF Len(embedding) # dimension
                 THEN [self |-> s1, found |-> None, matched_id |-> None, raised |-> TRUE]
                 ELSE [self |-> [s1 EXCEPT !.index = Append(@, embedding),
                                           !.person_embeddings = dict_append(@, id, embedding)],
                       found |-> None, matched_id |-> id, raised |-> FALSE]
     ELSE [self |-> self, found |-> m.value, matched_id |-> m.value, raised |-> FALSE]

\* mutant: next_id wraps around after two identities
resolve_wrap(self, embedding, t) ==
  LET m == match_reid_embedding(self, embedding, t)
  IN IF m.raised
       THEN [self |-> self, found |-> None, matched_id |-> None, raised |-> TRUE]
     ELSE IF m.value = None
       THEN LET s1 == [self EXCEPT !.next_id = (@ + 1) % 2]
                id == self.next_id
            IN IF Len(embedding) # dimension
                 THEN [self |-> s1, found |-> None, matched_id |-> None, raised |-> TRUE]
                 ELSE [self |-> [s1 EXCEPT !.index = Append(@, embedding),
                                           !.person_embeddings = dict_append(@, id, embedding)],
                       found |-> None, matched_id |-> id, raised |-> FALSE]
     ELSE [self |-> self, found |-> m.value, matched_id |-> m.value, raised |-> FALSE]

\* mutant: a match also inserts the embedding, under the matched identity
resolve_refresh(self, embedding, t) ==
  LET m == match_reid_embedding(self, embedding, t)
  IN IF m.raised
       THEN [self |-> self, found |-> None, matched_id |-> None, raised |-> TRUE]
     ELSE IF m.value = None
       THEN LET s1 == [self EXCEPT !.next_id = @ + 1]
                id == self.next_id
            IN IF Len(embedding) # dimension
                 THEN [self |-> s1, found |-> None, matched_id |-> None, raised |-> TRUE]
                 ELSE [self |-> [s1 EXCEPT !.index = Append(@, embedding),
                                           !.person_embeddings = dict_append(@, id, embedding)],
                       found |-> None, matched_id |-> id, raised |-> FALSE]
     ELSE [self |-> [self EXCEPT !.index = Append(@, embedding),
                             !.person_embeddings = dict_append(@, m.value, embedding)],
           found |-> m.value, matched_id |-> m.value, raised |-> FALSE]

\* mutant: next_id is incremented on a match too
resolve_count_always(self, embedding, t) ==
  LET m == match_reid_embedding(self, embedding, t)
  IN IF m.raised
       THEN [self |-> self, found |-> None, matched_id |-> None, raised |-> TRUE]
     ELSE IF m.value = None
       THEN LET s1 == [self EXCEPT !.next_id = @ + 1]
                id == self.next_id
            IN IF Len(embedding) # dimension
                 THEN [self |-> s1, found |-> None, matched_id |-> None, raised |-> TRUE]
                 ELSE [self |-> [s1 EXCEPT !.index = Append(@, embedding),
                                           !.person_embeddings = dict_append(@, id, embedding)],
                       found |-> None, matched_id |-> id, raised |-> FALSE]
     ELSE [self |-> [self EXCEPT !.next_id = @ + 1],
           found |-> m.value, matched_id |-> m.value, raised |-> FALSE]

\* mutant: the new embedding goes into the index but not into the store
resolve_no_store(self, embedding, t) ==
  LET m == match_reid_embedding(self, embedding, t)
  IN IF m.raised
       THEN [self |-> self, found |-> None, matched_id |-> None, raised |-> TRUE]
     ELSE IF m.value = None
       THEN LET s1 == [self EXCEPT !.next_id = @ + 1]
                id == self.next_id
            IN IF Len(embedding) # dimension
                 THEN [self |-> s1, found |-> None, matched_id |-> None, raised |-> TRUE]
                 ELSE [self |-> [s1 EXCEPT !.index = Append(@, embedding)],
                       found |-> None, matched_id |-> id, raised |-> FALSE]
     ELSE [self |-> self, found |-> m.value, matched_id |-> m.value, raised |-> FALSE]

\* The match-or-mint step of the loop body of process_frame, for one embedding:
\* the tracker afterwards, what match_reid_embedding found, the identity
\* labelled, and whether an exception left the loop.  index.add raises for a
\* vector that is not `dimension` long, after next_id was incremented.
resolve(self, embedding, t) ==
  LET m == match_reid_embedding(self, embedding, t)
  IN IF m.raised
       THEN [self |-> self, found |-> None, matched_id |-> None, raised |-> TRUE]
     ELSE IF m.value = None
       THEN LET id == self.next_id
                s1 == [self EXCEPT !.next_id = @ + 1]
            IN IF Len(embedding) # dimension
                 THEN [self |-> s1, found |-> None, matched_id |-> None, raised |-> TRUE]
                 ELSE [self |-> [s1 EXCEPT !.index = Append(@, embedding),
                                           !.person_embeddings = dict_append(@, id, embedding)],
                       found |-> None, matched_id |-> id, raised |-> FALSE]
     ELSE [self |-> self, found |-> m.value, matched_id |-> m.value, raised |-> FALSE]

\* mutant: an unmatched detection is labelled with its short-term track id
loop_body_track_id(self, embedding, track_id) ==
  LET r == resolve(self, embedding, threshold)
  IN IF r.found = None /\ ~r.raised THEN [r EXCEPT !.matched_id = track_id] ELSE r

\* The body of `for box, track_id in zip(boxes, track_ids)` for one detection
\* whose crop has the given embedding: match_reid_embedding is called with
\* its default threshold, and track_id is not used.
loop_body(self, embedding, track_id) == resolve(self, embedding, threshold)

\* ---- process_video / process_frame, one loop iteration per step ----
NoCall == [embedding |-> << >>, found |-> None, matched_id |-> None]

NoFrame == [labels |-> << >>, ids |-> << >>, n |-> 0, has_id |-> FALSE]

\* no call in flight; calls run one at a time
NoRace == [atomic |-> TRUE, lock |-> 0, pc |-> <<"done", "done">>,
           embedding |-> <<zeros, zeros>>, m |-> <<None, None>>]

TrackIds == 1..MaxTrackId

Init ==
  /\ tracker = PersonTracker
  /\ pc = "idle"
  /\ todo = 0
  /\ frame_count = 0
  /\ last = NoCall
  /\ minted = << >>
  /\ tracker2 = PersonTracker
  /\ out = NoFrame
  /\ out2 = NoFrame
  /\ thr = threshold
  /\ thr2 = threshold
  /\ same_ids = TRUE
  /\ race = NoRace
  /\ extraction_failed = FALSE

\* cap.read() returned a frame; the detector found no boxes, or no track ids:
\* process_frame returns the frame untouched and process_video counts it.
SkipFrame ==
  /\ pc = "idle"
  /\ frame_count < MaxFrames
  /\ \E n \in 0..MaxBoxes, has_id \in BOOLEAN : n = 0 \/ ~has_id
  /\ frame_count' = frame_count + 1
  /\ UNCHANGED <<tracker, pc, todo, last, minted, tracker2, out, out2, thr, thr2, same_ids, race, extraction_failed>>

\* cap.read() returned a frame with n boxes, each with a track id: the loop
\* over zip(boxes, track_ids) starts.
EnterLoop ==
  /\ pc = "idle"
  /\ frame_count < MaxFrames
  /\ \E n \in 1..MaxBoxes : todo' = n
  /\ pc' = "loop"
  /\ UNCHANGED <<tracker, frame_count, last, minted, tracker2, out, out2, thr, thr2, same_ids, race, extraction_failed>>

\* One iteration of the loop: the embedding of the crop (one of E), then
\* match or mint; an exception leaves process_frame and process_video.
Iterate(E) ==
  /\ pc = "loop"
  /\ todo > 0
  /\ \E embedding \in E, track_id \in TrackIds :
       LET r == loop_body(tracker, embedding, track_id)
       IN /\ tracker' = r.self
          /\ last' = [embedding |-> embedding, found |-> r.found, matched_id |-> r.matched_id]
          /\ minted' = IF Len(r.self.index) > Len(tracker.index)
                         THEN Append(minted, r.matched_id) ELSE minted
          /\ pc' = IF r.raised THEN "raised" ELSE "loop"
          /\ todo' = IF r.raised THEN todo ELSE todo - 1
  /\ UNCHANGED <<frame_count, tracker2, out, out2, thr, thr2, same_ids, race, extraction_failed>>

\* The loop is over: process_frame returns, process_video counts the frame.
ReturnFrame ==
  /\ pc = "loop"
  /\ todo = 0
  /\ pc' = "idle"
  /\ frame_count' = frame_count + 1
  /\ UNCHANGED <<tracker, todo, last, minted, tracker2, out, out2, thr, thr2, same_ids, race, extraction_failed>>

\* cap.read() returned no frame: the loop of process_video breaks.
EndOfVideo ==
  /\ pc = "idle"
  /\ pc' = "done"
  /\ UNCHANGED <<tracker, todo, frame_count, last, minted, tracker2, out, out2, thr, thr2, same_ids, race, extraction_failed>>

Next ==
  \/ SkipFrame
  \/ EnterLoop
  \/ Iterate(Embeddings)
  \/ ReturnFrame
  \/ EndOfVideo

Spec == Init /\ [][Next]_vars

\* ---- the loop fed vectors of any length ----
NextAny ==
  \/ SkipFrame
  \/ EnterLoop
  \/ Iterate(Vectors)
  \/ ReturnFrame
  \/ EndOfVideo

SpecAny == Init /\ [][NextAny]_vars

\* ---- two sessions fed the same embeddings under two thresholds ----
Thresholds == 0..MaxThreshold

InitThr ==
  /\ tracker = PersonTracker
  /\ pc = "idle"
  /\ todo = 0
  /\ frame_count = 0
  /\ last = NoCall
  /\ minted = << >>
  /\ tracker2 = PersonTracker
  /\ out = NoFrame
  /\ out2 = NoFrame
  /\ thr \in Thresholds
  /\ thr2 \in Thresholds
  /\ thr <= thr2
  /\ same_ids = TRUE
  /\ race = NoRace
  /\ extraction_failed = FALSE

\* The match-or-mint step for one embedding, in both sessions.
ResolveBoth ==
  /\ tracker.next_id < MaxIds
  /\ tracker2.next_id < MaxIds
  /\ \E embedding \in EmbeddingsWide :
       LET r == resolve(tracker, embedding, thr)
           r2 == resolve(tracker2, embedding, thr2)
       IN /\ tracker' = r.self
          /\ tracker2' = r2.self
          /\ last' = [embedding |-> embedding, found |-> r.found, matched_id |-> r.matched_id]
          /\ minted' = IF Len(r.self.index) > Len(tracker.index)
                         THEN Append(minted, r.matched_id) ELSE minted
  /\ UNCHANGED <<pc, todo, frame_count, out, out2, thr, thr2, same_ids, race, extraction_failed>>

NextThr == ResolveBoth

SpecThr == InitThr /\ [][NextThr]_vars

\* ---- two sessions fed the same detections under different track ids ----
\* Both sessions read the same frame: the same n boxes; boxes.id is None or
\* one id per box, independently for each session.
PairTrack ==
  /\ pc = "idle"
  /\ frame_count < MaxFrames
  /\ \E n \in 0..MaxBoxes, h1 \in BOOLEAN, h2 \in BOOLEAN :
       /\ n = 0 => (~h1 /\ ~h2)
       /\ out' = [labels |-> << >>, ids |-> << >>, n |-> n, has_id |-> h1]
       /\ out2' = [labels |-> << >>, ids |-> << >>, n |-> n, has_id |-> h2]
       /\ todo' = IF h1 \/ h2 THEN n ELSE 0
       /\ same_ids' = (same_ids /\ (h1 = h2))
  /\ pc' = "loop"
  /\ UNCHANGED <<tracker, frame_count, last, minted, tracker2, thr, thr2, race, extraction_failed>>

\* The next detection of the frame, in each session that entered its loop:
\* the same embedding, a track id of its own.
PairIterate ==
  /\ pc = "loop"
  /\ todo > 0
  /\ \E embedding \in Embeddings, track_id \in TrackIds, track_id2 \in TrackIds :
       LET r == loop_body(tracker, embedding, track_id)
           r2 == loop_body(tracker2, embedding, track_id2)
       IN /\ tracker' = IF out.has_id THEN r.self ELSE tracker
          /\ out' = IF out.has_id
                    THEN [out EXCEPT !.labels = Append(@, r.matched_id), !.ids = Append(@, track_id)]
                    ELSE out
          /\ tracker2' = IF out2.has_id THEN r2.self ELSE tracker2
          /\ out2' = IF out2.has_id
                     THEN [out2 EXCEPT !.labels = Append(@, r2.matched_id), !.ids = Append(@, track_id2)]
                     ELSE out2
  /\ todo' = todo - 1
  /\ UNCHANGED <<pc, frame_count, last, minted, thr, thr2, same_ids, race, extraction_failed>>

\* Both calls of process_frame return.
PairReturn ==
  /\ pc = "loop"
  /\ todo = 0
  /\ pc' = "idle"
  /\ frame_count' = frame_count + 1
  /\ UNCHANGED <<tracker, todo, last, minted, tracker2, out, out2, thr, thr2, same_ids, race, extraction_failed>>

NextIds ==
  \/ PairTrack
  \/ PairIterate
  \/ PairReturn

SpecIds == Init /\ [][NextIds]_vars

\* ---- two calls of the match-or-mint step in flight at once ----
\* The statements under `if matched_id is None`, for a vector of the index's
\* dimension: the new identity, the increment, index.add, the store append.
mint(self, embedding) ==
  LET id == self.next_id
  IN [self EXCEPT !.next_id = @ + 1,
                  !.index = Append(@, embedding),
                  !.person_embeddings = dict_append(@, id, embedding)]

\* Either each call holds a lock from its query to its insert, which is the
\* order in which the loop of process_frame runs them, or the calls interleave.
InitRace ==
  /\ tracker = PersonTracker
  /\ pc = "idle"
  /\ todo = 0
  /\ frame_count = 0
  /\ last = NoCall
  /\ minted = << >>
  /\ tracker2 = PersonTracker
  /\ out = NoFrame
  /\ out2 = NoFrame
  /\ thr = threshold
  /\ thr2 = threshold
  /\ same_ids = TRUE
  /\ race \in {[NoRace EXCEPT !.atomic = a] : a \in BOOLEAN}
  /\ extraction_failed = FALSE

\* Two detections are handed to the match-or-mint step.
Arrive ==
  /\ race.pc = <<"done", "done">>
  /\ tracker.next_id < MaxIds
  /\ \E e1 \in Embeddings, e2 \in Embeddings :
       race' = [race EXCEPT !.pc = <<"start", "start">>,
                            !.embedding = <<e1, e2>>,
                            !.m = <<None, None>>]
  /\ UNCHANGED <<tracker, pc, todo, frame_count, last, minted, tracker2, out, out2,
                 thr, thr2, same_ids, extraction_failed>>

\* matched_id = self.match_reid_embedding(embedding), for call p
Query(p) ==
  /\ race.pc[p] = "start"
  /\ race.atomic => race.lock = 0
  /\ race' = [race EXCEPT !.pc[p] = "queried",
                          !.m[p] = match_reid_embedding(tracker, race.embedding[p], threshold).value,
                          !.lock = IF race.atomic THEN p ELSE 0]
  /\ UNCHANGED <<tracker, pc, todo, frame_count, last, minted, tracker2, out, out2,
                 thr, thr2, same_ids, extraction_failed>>

\* if matched_id is None: mint, for call p
Act(p) ==
  /\ race.pc[p] = "queried"
  /\ tracker' = IF race.m[p] = None THEN mint(tracker, race.embedding[p]) ELSE tracker
  /\ race' = [race EXCEPT !.pc[p] = "done", !.lock = 0]
  /\ UNCHANGED <<pc, todo, frame_count, last, minted, tracker2, out, out2,
                 thr, thr2, same_ids, extraction_failed>>

NextRace ==
  \/ Arrive
  \/ \E p \in {1, 2} : Query(p)
  \/ \E p \in {1, 2} : Act(p)

SpecRace == InitRace /\ [][NextRace]_vars

\* ---- the loop with the extraction of the embedding made explicit ----
\* mutant: a failed extraction returns an empty vector
get_reid_embedding_empty(failed, v) == IF failed THEN << >> ELSE v

\* get_reid_embedding(crop): the model's output v for the crop, or, when
\* anything in the try block raised, np.zeros(self.dimension).
get_reid_embedding(failed, v) == IF failed THEN zeros ELSE v

\* One iteration of the loop: extraction, which may fail, then match or mint.
IterateExtract ==
  /\ pc = "loop"
  /\ todo > 0
  /\ \E v \in Embeddings, failed \in BOOLEAN, track_id \in TrackIds :
       LET embedding == get_reid_embedding(failed, v)
           r == loop_body(tracker, embedding, track_id)
       IN /\ tracker' = r.self
          /\ last' = [embedding |-> embedding, found |-> r.found, matched_id |-> r.matched_id]
          /\ minted' = IF Len(r.self.index) > Len(tracker.index)
                         THEN Append(minted, r.matched_id) ELSE minted
          /\ pc' = IF r.raised THEN "raised" ELSE "loop"
          /\ todo' = IF r.raised THEN todo ELSE todo - 1
          /\ extraction_failed' = failed
  /\ UNCHANGED <<frame_count, tracker2, out, out2, thr, thr2, same_ids, race>>

NextExtract ==
  \/ SkipFrame
  \/ EnterLoop
  \/ IterateExtract
  \/ ReturnFrame
  \/ EndOfVideo

SpecExtract == Init /\ [][NextExtract]_vars

\* ---- properties ----
\* A step that ran the loop body once (in Spec and SpecAny).
Called == pc = "loop" /\ pc' # "idle"

Slots(self) == 1..Len(self.index)

\* distance from the vector in slot j (1-based) to x
Dist(self, j, x) == fvec_L2sqr(self.index[j], x)

\* no stored vector is nearer to x than the one in slot j
IsNearest(self, j, x) == \A k \in Slots(self) : Dist(self, j, x) <= Dist(self, k, x)

\* some stored vector is within distance t of x
Within(self, x, t) == \E j \in Slots(self) : Dist(self, j, x) <= t

\* the identities under which vector v is recorded in the store
KeysOf(self, v) ==
  { k \in DOMAIN self.person_embeddings :
      \E n \in 1..Len(self.person_embeddings[k]) : self.person_embeddings[k][n] = v }

\* C1: slot/identity lock-step. The vector of every slot is recorded in the
\* store under exactly the identity labelled by the iteration that created the
\* slot, that identity is the slot number, the index has next_id slots, and a
\* match on a slot is labelled with that slot's identity.
C1_LockStep ==
  /\ Len(minted) = Len(tracker.index)
  /\ Len(tracker.index) = tracker.next_id
  /\ \A i \in Slots(tracker) :
       /\ minted[i] = i - 1
       /\ KeysOf(tracker, tracker.index[i]) = {minted[i]}
  /\ last.found # None =>
       /\ last.found + 1 \in Slots(tracker)
       /\ last.matched_id = minted[last.found + 1]

\* a match on the second slot of an index of two or more slots
C1_Witness ==
  /\ Len(tracker.index) >= 2
  /\ last.found = 1

\* C2: decision rule. If some stored vector is within the threshold
\* (inclusive) the iteration is labelled with the identity of a nearest slot;
\* otherwise it is labelled with the old next_id, next_id grows by one, and
\* the embedding becomes one new slot and one new store record.
C2_DecisionRule ==
  [][Called =>
       LET e == last'.embedding
           id == tracker.next_id
       IN IF Within(tracker, e, threshold)
            THEN \E j \in Slots(tracker) :
                   /\ IsNearest(tracker, j, e)
                   /\ last'.found = j - 1
                   /\ last'.matched_id = minted[j]
            ELSE /\ last'.found = None
                 /\ last'.matched_id = id
                 /\ tracker'.next_id = id + 1
                 /\ tracker'.index = Append(tracker.index, e)
                 /\ id \notin DOMAIN tracker.person_embeddings
                 /\ DOMAIN tracker'.person_embeddings = DOMAIN tracker.person_embeddings \cup {id}
                 /\ tracker'.person_embeddings[id] = <<e>>
                 /\ \A k \in DOMAIN tracker.person_embeddings :
                      tracker'.person_embeddings[k] = tracker.person_embeddings[k]]_vars

\* a match at a distance equal to the threshold
C2_Witness ==
  /\ last.found # None
  /\ Dist(tracker, last.found + 1, last.embedding) = threshold

\* C3: a matching iteration changes nothing. When some stored vector is
\* within the threshold, index, store and next_id are as before; with one slot
\* the label is that slot's identity and the index still has one slot.
C3_MatchChangesNothing ==
  [][(Called /\ Within(tracker, last'.embedding, threshold)) =>
       /\ tracker' = tracker
       /\ last'.found # None
       /\ Len(tracker.index) = 1 =>
            (last'.matched_id = minted[1] /\ Len(tracker'.index) = 1)]_vars

\* a different embedding matched the only slot
C3_Witness ==
  /\ Len(tracker.index) = 1
  /\ last.found = 0
  /\ last.embedding # tracker.index[1]
  /\ tracker.next_id = 1

\* C4: next_id is the number of distinct identities minted, every minted
\* identity and the last identity labelled lie in 0..next_id-1.
C4_SessionState ==
  /\ tracker.next_id = Cardinality({minted[i] : i \in DOMAIN minted})
  /\ \A i \in DOMAIN minted : minted[i] \in 0..(tracker.next_id - 1)
  /\ last.matched_id # None => last.matched_id \in 0..(tracker.next_id - 1)

\* three identities minted, then a match
C4_Witness ==
  /\ tracker.next_id >= 3
  /\ last.found # None

\* C7: next_id never decreases and a newly minted identity is greater than
\* every identity minted before.
C7_MonotonicCounter ==
  [][/\ tracker'.next_id >= tracker.next_id
     /\ Len(minted') > Len(minted) =>
          \A i \in DOMAIN minted : minted'[Len(minted')] > minted[i]]_vars

\* a third identity was just minted
C7_Witness ==
  /\ Len(minted) >= 3
  /\ last.found = None
  /\ last.matched_id = minted[Len(minted)]

C5_ThresholdMonotone == tracker2.next_id <= tracker.next_id

\* C5 as amended: from the same resolver state, the call with the larger
\* threshold mints no more identities than the call with the smaller one.
C5_StepMonotone ==
  [][tracker = tracker2 =>
       tracker2'.next_id - tracker2.next_id <= tracker'.next_id - tracker.next_id]_vars

\* from the same state, one call minted under the smaller threshold and
\* matched under the larger
C5_Witness ==
  /\ thr < thr2
  /\ Len(tracker2.index) >= 1
  /\ tracker.index = Append(tracker2.index, last.embedding)
  /\ tracker.next_id = tracker2.next_id + 1

\* C6: idempotent re-match. Resolving again an embedding that is stored in
\* some slot, under the session's non-negative threshold, is labelled with the
\* identity minted for that slot and leaves index and next_id as they were.
C6_IdempotentRematch ==
  [][\A i \in Slots(tracker) :
       (thr >= 0 /\ last'.embedding = tracker.index[i]) =>
         /\ last'.matched_id = minted[i]
         /\ tracker'.index = tracker.index
         /\ tracker'.next_id = tracker.next_id]_vars

\* the embedding of the first slot was resolved again after another identity
\* had been minted
C6_Witness ==
  /\ Len(tracker.index) >= 2
  /\ last.embedding = tracker.index[1]
  /\ last.found = 0
  /\ last.matched_id = minted[1]

\* C8: a vector whose length is not `dimension` raises, the exception leaves
\* the loop, nothing is matched or labelled, and index and store keep their
\* contents: every stored vector is `dimension` long.
C8_MalformedRejected ==
  [][(Called /\ Len(last'.embedding) # dimension) =>
       /\ pc' = "raised"
       /\ last'.found = None
       /\ last'.matched_id = None
       /\ tracker'.index = tracker.index
       /\ tracker'.person_embeddings = tracker.person_embeddings
       /\ \A i \in Slots(tracker') : Len(tracker'.index[i]) = dimension]_vars

\* a vector of another length was rejected by a non-empty index
C8_Witness ==
  /\ pc = "raised"
  /\ Len(last.embedding) # dimension
  /\ Len(tracker.index) >= 1

\* C10 as stated: two sessions fed the same embeddings have the same state
\* and draw the same labels, whatever track ids each received, none included.
C10_TrackIdIndependent ==
  /\ tracker = tracker2
  /\ out.labels = out2.labels

\* C10 as amended: the two sessions agree as long as they received track ids
\* on the same frames, whatever the ids; a session resolves each detection of
\* a frame once when the frame has track ids and none when it has not.
C10_TrackIdValueIndependent ==
  /\ same_ids => (tracker = tracker2 /\ out.labels = out2.labels)
  /\ Len(out.labels) = (IF out.has_id THEN out.n - todo ELSE 0)
  /\ Len(out2.labels) = (IF out2.has_id THEN out2.n - todo ELSE 0)

\* a frame of two detections resolved under a repeated track id in one
\* session and under two different ids in the other
C10_Witness ==
  /\ same_ids
  /\ pc = "idle"
  /\ Len(out.ids) = 2
  /\ Len(out2.ids) = 2
  /\ out.ids[1] = out.ids[2]
  /\ out2.ids[1] # out2.ids[2]
  /\ Len(out.labels) = 2
  /\ tracker.next_id >= 1

\* two stored vectors are within distance t of each other
Duplicate(self, t) ==
  \E i \in Slots(self), j \in Slots(self) : i < j /\ Dist(self, i, self.index[j]) <= t

\* C11: when each call runs from its query to its insert without another call
\* in between, no two stored vectors are within the threshold of each other
\* (the witness is the state the interleaved calls reach).
C11_AtomicNoDuplicate == race.atomic => ~Duplicate(tracker, threshold)

\* interleaved: both calls queried the empty index and both minted, for
\* embeddings within the threshold of each other
C11_Witness ==
  /\ ~race.atomic
  /\ race.pc = <<"done", "done">>
  /\ race.m = <<None, None>>
  /\ tracker.next_id = 2
  /\ Len(tracker.index) = 2
  /\ Duplicate(tracker, threshold)

\* C12: an iteration whose extraction failed resolves the all-zero vector by
\* the same rule as any embedding (match within the threshold, else mint), the
\* loop goes on to the next detection, and once the all-zero vector is stored
\* a failed extraction matches without minting.
C12_FailedExtraction ==
  [][(Called /\ extraction_failed') =>
       /\ last'.embedding = zeros
       /\ pc' = "loop"
       /\ todo' = todo - 1
       /\ IF Within(tracker, zeros, threshold)
            THEN /\ last'.found # None
                 /\ tracker' = tracker
            ELSE /\ last'.found = None
                 /\ last'.matched_id = tracker.next_id
                 /\ tracker'.next_id = tracker.next_id + 1
                 /\ tracker'.index = Append(tracker.index, zeros)
       /\ (\E i \in Slots(tracker) : tracker.index[i] = zeros) =>
            (last'.found # None /\ tracker'.next_id = tracker.next_id)]_vars

\* a failed extraction matched the stored all-zero vector, with a detection
\* of the frame still to come
C12_Witness ==
  /\ extraction_failed
  /\ pc = "loop"
  /\ todo >= 1
  /\ last.embedding = zeros
  /\ last.found # None
  /\ tracker.index[last.found + 1] = zeros

\* C13 as stated: an iteration that ends in an exception leaves next_id, index
\* and store as they were, and next_id still equals the number of slots and
\* the number of store keys.
C13_FailureAtomic ==
  [][(Called /\ pc' = "raised") =>
       /\ tracker' = tracker
       /\ tracker'.next_id = Len(tracker'.index)
       /\ tracker'.next_id = Cardinality(DOMAIN tracker'.person_embeddings)]_vars

\* C14: leader separation. Under the session's threshold no two stored
\* vectors are within the threshold of each other.
C14_LeaderSeparation == ~Duplicate(tracker, thr)

\* two vectors stored under a positive threshold, the last call a match
\* with a vector that is near a stored one without being equal to it
C14_Witness ==
  /\ thr >= 1
  /\ Len(tracker.index) = 2
  /\ last.found # None
  /\ last.embedding # tracker.index[last.found + 1]

\* the store holds exactly the keys 0..next_id-1, each with the one embedding
\* of the slot of the same number
StoreShape ==
  /\ Len(tracker.index) = tracker.next_id
  /\ DOMAIN tracker.person_embeddings = 0..(tracker.next_id - 1)
  /\ \A k \in DOMAIN tracker.person_embeddings :
       tracker.person_embeddings[k] = <<tracker.index[k + 1]>>

\* a step keeps every slot and every store record it found
AppendOnly ==
  /\ Len(tracker'.index) >= Len(tracker.index)
  /\ \A i \in Slots(tracker) : tracker'.index[i] = tracker.index[i]
  /\ Cardinality(DOMAIN tracker'.person_embeddings) >= Cardinality(DOMAIN tracker.person_embeddings)
  /\ \A k \in DOMAIN tracker.person_embeddings :
       /\ k \in DOMAIN tracker'.person_embeddings
       /\ tracker'.person_embeddings[k] = tracker.person_embeddings[k]

\* C15: store shape and append-only growth. In every state the store has the
\* shape above, and no step removes or alters a slot or a store record.
C15_StoreShapeAppendOnly == []StoreShape /\ [][AppendOnly]_vars

\* three identities stored, the last iteration a mint in a later frame
C15_Witness ==
  /\ DOMAIN tracker.person_embeddings = {0, 1, 2}
  /\ Len(tracker.index) = 3
  /\ frame_count >= 1
  /\ last.found = None
  /\ last.embedding = tracker.index[3]

====
